---- MODULE Spec2Model ----
(***************************************************************************)
(* Model of the retrieval-augmented answering server (src/api_server.py):  *)
(* the session map, the /api/query handler with its confidence gate,       *)
(* generation, retry and citation steps, and search_all_collections.       *)
(*                                                                         *)
(* Text is modelled as a sequence of one-character strings, so that        *)
(* strip(), startswith(), substring tests, slicing and len() are computed  *)
(* as Python computes them.  Scores are integers standing for the floats.  *)
(***************************************************************************)
EXTENDS Integers, Sequences, FiniteSets, TLC

(***************************************************************************)
(* Bounds of the model.                                                    *)
(***************************************************************************)
\* accepted /api/query requests in one behaviour
MaxQueries == 2
\* sessions that can be created in one behaviour
MaxSessions == 1

(***************************************************************************)
(* Program constants.                                                      *)
(***************************************************************************)
\* TOPK_FINAL (core.config), passed as final_k; scaled down
TOPK_FINAL == 2
\* LOW_CONFIDENCE_THRESH (core.config); on the integer score scale
LOW_CONFIDENCE_THRESH == 1
\* len(final_answer) < 4
MinAnswerLen == 4
\* messages[-10:]
SummaryWindow == 10
\* msg['content'][:100]
SummaryChars == 100

(***************************************************************************)
(* Text helpers (Python str operations).                                   *)
(***************************************************************************)
Min2(a, b) == IF a <= b THEN a ELSE b

Max2(a, b) == IF a >= b THEN a ELSE b

\* str.startswith
StartsWith(t, p) ==
    /\ Len(p) <= Len(t)
    /\ SubSeq(t, 1, Len(p)) = p

\* p in t
Contains(t, p) ==
    \E i \in 0..(Len(t) - Len(p)) : SubSeq(t, i + 1, i + Len(p)) = p

IsSpace(ch) == ch \in {" ", "\n", "\t"}

RECURSIVE LStrip(_)
LStrip(t) ==
    IF t # <<>> /\ IsSpace(Head(t)) THEN LStrip(Tail(t)) ELSE t

RECURSIVE RStrip(_)
RStrip(t) ==
    IF t # <<>> /\ IsSpace(t[Len(t)]) THEN RStrip(SubSeq(t, 1, Len(t) - 1)) ELSE t

\* str.strip
Strip(t) == RStrip(LStrip(t))

\* t[:n]
Prefix(t, n) == SubSeq(t, 1, Min2(n, Len(t)))

\* s[-n:]
LastN(s, n) == SubSeq(s, Max2(1, Len(s) - n + 1), Len(s))

\* sep.join(parts)
RECURSIVE Join(_, _)
Join(parts, sep) ==
    IF parts = <<>> THEN <<>>
    ELSE IF Len(parts) = 1 THEN parts[1]
    ELSE parts[1] \o sep \o Join(Tail(parts), sep)

\* code-point order of the characters that occur in global ids
Alphabet == <<"1", "2", ":", "a", "b">>

Rank(ch) == CHOOSE i \in 1..Len(Alphabet) : Alphabet[i] = ch

\* s < t on Python strings
RECURSIVE StrLess(_, _)
StrLess(s, t) ==
    IF t = <<>> THEN FALSE
    ELSE IF s = <<>> THEN TRUE
    ELSE IF Head(s) = Head(t) THEN StrLess(Tail(s), Tail(t))
    ELSE Rank(Head(s)) < Rank(Head(t))

(***************************************************************************)
(* Fixed texts of the program.                                             *)
(***************************************************************************)
LLM_ERROR == <<"_","_","L","L","M","_","E","R","R","O","R","_","_">>

NOT_FOUND_MARKER == <<"N","o","t"," ","f","o","u","n","d"," ","i","n"," ","t","h","e"," ","d","o","c","u","m","e","n","t">>

APOLOGY == <<"S","o","r","r","y",","," ","I"," ","c","o","u","l","d","n","'","t"," ","g","e","n","e","r","a","t","e"," ","a","n"," ","a","n","s","w","e","r"," ","r","i","g","h","t"," ","n","o","w",".">>

NO_PRIOR == <<"N","o"," ","p","r","i","o","r"," ","c","o","n","v","e","r","s","a","t","i","o","n",".">>

UserLabel == <<"U","s","e","r",":"," ">>

AsstLabel == <<"A","s","s","i","s","t","a","n","t",":"," ">>

SummarySep == <<" ","|"," ">>

(***************************************************************************)
(* Collections on disk, as one query sees them.  A collection is what      *)
(* VectorStore.load / search_hybrid / top_dense_score give for the query:  *)
(*   fail    the step that raises: "none", "load", "search" or "top"       *)
(*   results the ranked (chunk_id, score) list of search_hybrid            *)
(*   meta    the chunk ids that vs.meta holds                              *)
(*   top     the value of top_dense_score                                  *)
(***************************************************************************)
CollIds == {"a", "b"}

ChunkIds == {"1", "2"}

\* f"{collection['id']}::{chunk_id}"
GlobalId(c, k) == <<c, ":", ":", k>>

\* vs.meta[chunk_id]: document, page and text of a chunk
ChunkMeta(c, k) ==
    [doc  |-> <<c, ".", "p", "d", "f">>,
     page |-> IF c = "a" THEN k ELSE "3",
     text |-> <<"t", "e", "x", "t", "-", c, k>>]

\* the ranked result lists of at most n entries over distinct chunks
ResultLists(chunks, scores, n) ==
    LET one == { <<[chunk |-> k, score |-> s]>> : k \in chunks, s \in scores }
        two == { <<[chunk |-> k1, score |-> s1], [chunk |-> k2, score |-> s2]>> :
                   k1 \in chunks, k2 \in chunks, s1 \in scores, s2 \in scores }
    IN  {<<>>}
          \cup (IF n >= 1 THEN one ELSE {})
          \cup (IF n >= 2 THEN { r \in two : r[1].chunk # r[2].chunk
                                            /\ r[1].score >= r[2].score }
                ELSE {})

\* the states of one collection; the fields a failing step never reads are fixed
CollStates(fails, chunks, scores, n, metas, tops) ==
    { [fail |-> f, results |-> <<>>, meta |-> {}, top |-> 0] :
        f \in fails \cap {"load", "search"} }
    \cup { [fail |-> "none", results |-> r, meta |-> m, top |-> t] :
             r \in ResultLists(chunks, scores, n), m \in metas, t \in tops }
    \cup { [fail |-> "top", results |-> r, meta |-> m, top |-> 0] :
             r \in (IF "top" \in fails THEN ResultLists(chunks, scores, n) \ {<<>>}
                    ELSE {}),
             m \in metas }

\* the orders in which os.listdir may enumerate the collections cs
Listings(cs) ==
    { l \in [1..Cardinality(cs) -> cs] :
        \A i, j \in DOMAIN l : i # j => l[i] # l[j] }

(***************************************************************************)
(* search_all_collections                                                  *)
(***************************************************************************)
\* the candidates one collection adds to all_results
Candidates(c, st) ==
    [i \in 1..Len(st.results) |->
        [id |-> GlobalId(c, st.results[i].chunk), score |-> st.results[i].score]]

\* the keys one collection adds to combined_meta, in insertion order
RECURSIVE MetaKeys(_, _, _)
MetaKeys(c, st, i) ==
    IF i > Len(st.results) THEN <<>>
    ELSE (IF st.results[i].chunk \in st.meta
          THEN <<GlobalId(c, st.results[i].chunk)>> ELSE <<>>)
         \o MetaKeys(c, st, i + 1)

\* SearchOne with max_score overwritten by each collection's top score
SearchOne_lastWins(acc, c, st) ==
    IF st.fail \in {"load", "search"} THEN acc
    ELSE LET added == [acc EXCEPT !.all_results = @ \o Candidates(c, st),
                                  !.combined_meta = @ \o MetaKeys(c, st, 1)]
         IN  IF st.results = <<>> \/ st.fail = "top" THEN added
             ELSE [added EXCEPT !.max_score = st.top]

\* body of the for loop: one collection, with its try / except
SearchOne(acc, c, st) ==
    IF st.fail \in {"load", "search"} THEN acc
    ELSE LET added == [acc EXCEPT !.all_results = @ \o Candidates(c, st),
                                  !.combined_meta = @ \o MetaKeys(c, st, 1)]
         IN  IF st.results = <<>> \/ st.fail = "top" THEN added
             ELSE [added EXCEPT !.max_score = Max2(@, st.top)]

RECURSIVE SearchLoop(_, _, _, _)
SearchLoop(acc, listing, store, i) ==
    IF i > Len(listing) THEN acc
    ELSE SearchLoop(SearchOne(acc, listing[i], store[listing[i]]), listing, store, i + 1)

\* list.sort(key=score, reverse=True): stable, equal scores keep their order
RECURSIVE InsertByScore(_, _)
InsertByScore(sorted, x) ==
    IF sorted = <<>> THEN <<x>>
    ELSE IF Head(sorted).score >= x.score
         THEN <<Head(sorted)>> \o InsertByScore(Tail(sorted), x)
         ELSE <<x>> \o sorted

RECURSIVE SortByScore(_, _)
SortByScore(s, i) ==
    IF i = 0 THEN <<>> ELSE InsertByScore(SortByScore(s, i - 1), s[i])

\* TopResults with the slice taken before the sort
TopResults_sliceFirst(all_results, final_k) ==
    SortByScore(Prefix(all_results, final_k), Len(Prefix(all_results, final_k)))

\* lines 130-132: sort, then all_results[:final_k]
TopResults(all_results, final_k) ==
    Prefix(SortByScore(all_results, Len(all_results)), final_k)

search_all_collections(listing, store, final_k) ==
    IF listing = <<>>
    THEN [top_results |-> <<>>, combined_meta |-> <<>>, max_score |-> 0]
    ELSE LET acc == SearchLoop([all_results |-> <<>>, combined_meta |-> <<>>,
                                max_score |-> 0], listing, store, 1)
         IN  [top_results   |-> TopResults(acc.all_results, final_k),
              combined_meta |-> acc.combined_meta,
              max_score     |-> acc.max_score]

(***************************************************************************)
(* Collaborators of the query handler that live in core.retrieval          *)
(***************************************************************************)
\* the query texts clients send, before strip()
Q_hi == <<"h", "i">>

Q_refund == <<" ", "r", "e", "f", "u", "n", "d", "?">>

RawQueries == { <<>>, <<" ">>, Q_hi, Q_refund }

\* is_generic_query: greetings are conversational
is_generic_query(q) == q \in { Q_hi }

\* chunk metadata of a global id
MetaOf(gid) == ChunkMeta(gid[1], gid[4])

InKeys(gid, keys) == \E i \in DOMAIN keys : keys[i] = gid

\* make_context: context text, pages and sources of the ranked candidates
RECURSIVE make_context(_, _)
make_context(fused, combined_meta) ==
    IF fused = <<>>
    THEN [context_block |-> <<>>, pages |-> <<>>, source_meta |-> <<>>]
    ELSE LET rest == make_context(Tail(fused), combined_meta)
             gid  == Head(fused).id
         IN  IF InKeys(gid, combined_meta)
             THEN [context_block |-> MetaOf(gid).text \o <<"\n">> \o rest.context_block,
                   pages         |-> <<MetaOf(gid).page>> \o rest.pages,
                   source_meta   |-> <<[doc |-> MetaOf(gid).doc, page |-> MetaOf(gid).page]>>
                                      \o rest.source_meta]
             ELSE rest

\* build_prompt: the generic variant carries no evidence
build_prompt(user_query, conv_summary, context_block, general) ==
    [query   |-> user_query,
     summary |-> conv_summary,
     context |-> IF general THEN <<>> ELSE context_block,
     general |-> general]

\* minimal_extractive_fallback: the raw text of the first chunk handed over
minimal_extractive_fallback(fused, combined_meta) == MetaOf(fused[1].id).text

\* add_inline_citations: one marker per tracked page
RECURSIVE add_inline_citations(_, _)
add_inline_citations(answer, pages) ==
    IF pages = <<>> THEN answer
    ELSE add_inline_citations(answer \o <<" ", "[", "p", Head(pages), "]">>, Tail(pages))

\* what llm.generate may return
A_days == <<"1", "4", " ", "d", "a", "y", "s">>

A_not_found == NOT_FOUND_MARKER \o <<".">>

A_not_found_short == <<"N","o","t"," ","f","o","u","n","d"," ","i","n"," ","d","o","c","u","m","e","n","t",".">>

A_ok == <<" ", "o", "k", "\n">>

A_error == LLM_ERROR \o <<":", " ", "5", "0", "3">>

LLMOutputs == { A_days, A_not_found, A_not_found_short, A_ok, A_error }

(***************************************************************************)
(* State                                                                   *)
(***************************************************************************)
VARIABLES
    sessions,   \* the session map: session id -> session
    now,        \* the clock read by datetime.now()
    accepted,   \* queries accepted so far
    req,        \* the in-flight /api/query requests: position and locals
    store,      \* search_all_collections alone: the collections on disk
    listing,    \* ... the order get_all_collections enumerated them in
    final_k,    \* ... its final_k argument
    found       \* ... what it returned

vars == <<sessions, now, accepted, req, store, listing, final_k, found>>

searchVars == <<store, listing, final_k, found>>

serverVars == <<sessions, now, accepted, req>>

\* the requests that can be in flight
Reqs == {"r1"}

\* a request carrying no session id
NoId == 0

\* an id the server never issued
StaleId == 99

NotSearched == [top_results |-> <<>>, combined_meta |-> <<>>, max_score |-> -9]

NoResp == [status |-> 0, answer |-> <<>>, sources |-> <<>>,
           used_documents |-> FALSE, timestamp |-> 0]

\* the collections of a request that has not searched
NoWorld == [listing |-> <<>>, store |-> <<>>]

\* the body of a response that carries no history
NoHistory == [status |-> 400, messages |-> <<>>, collection_id |-> "None"]

\* session_id is the id the client sent, sid the id get_or_create_session
\* returned, user_ts the timestamp of the user message, world the collections
\* the request's search found on disk
IdleReq ==
    [pc |-> "idle", session_id |-> NoId, sid |-> NoId, user_ts |-> 0, world |-> NoWorld,
     user_query |-> <<>>, appended |-> <<>>,
     conv_summary |-> <<>>, generic |-> FALSE, searched |-> FALSE,
     fused |-> <<>>, combined_meta |-> <<>>, max_score |-> 0,
     context_block |-> <<>>, pages |-> <<>>, source_meta |-> <<>>,
     use_general |-> FALSE, prompts |-> <<>>, raw_answer |-> <<>>,
     alt |-> <<>>, retried |-> FALSE, fallback |-> FALSE, cited |-> FALSE,
     final_answer |-> <<>>, resp |-> NoResp]

(***************************************************************************)
(* Sessions                                                                *)
(***************************************************************************)
\* uuid.uuid4(): an id no session has
NewId == Cardinality(DOMAIN sessions) + 1

NewSession(id, t) ==
    [id |-> id, messages |-> <<>>, collection_id |-> "None", created_at |-> t]

\* get_or_create_session: the id it returns
SessionIdFor(session_id) ==
    IF session_id # NoId /\ session_id \in DOMAIN sessions THEN session_id ELSE NewId

\* get_or_create_session: the session map it leaves
SessionsWith(session_id) ==
    IF session_id # NoId /\ session_id \in DOMAIN sessions THEN sessions
    ELSE [i \in DOMAIN sessions \cup {NewId} |->
            IF i = NewId THEN NewSession(NewId, now) ELSE sessions[i]]

\* datetime.now() calls made by get_or_create_session
CreateTicks(session_id) ==
    IF session_id # NoId /\ session_id \in DOMAIN sessions THEN 0 ELSE 1

Message(role, content, t) == [role |-> role, content |-> content, timestamp |-> t]

\* one entry of the summary
SummaryPart(msg) ==
    (IF msg.role = "user" THEN UserLabel ELSE AsstLabel)
        \o Prefix(msg.content, SummaryChars)

\* conversation_summary over the whole log
conversation_summary_wholeLog(session) ==
    IF session.messages = <<>> THEN NO_PRIOR
    ELSE Join([i \in 1..Len(session.messages) |-> SummaryPart(session.messages[i])],
              SummarySep)

conversation_summary(session) ==
    IF session.messages = <<>> THEN NO_PRIOR
    ELSE LET last_n == LastN(session.messages, SummaryWindow)
         IN  Join([i \in 1..Len(last_n) |-> SummaryPart(last_n[i])], SummarySep)

(***************************************************************************)
(* The query handler, lines 251-324: retrieval and the confidence gate     *)
(***************************************************************************)
\* UseGeneral with <= for <
UseGeneral_atThreshold(max_score, source_meta) ==
    (max_score <= LOW_CONFIDENCE_THRESH) \/ (Len(source_meta) = 0)

\* line 287: use_general after a search that returned candidates and metadata
UseGeneral(max_score, source_meta) ==
    (max_score < LOW_CONFIDENCE_THRESH) \/ (Len(source_meta) = 0)

\* the locals after the retrieval block of a non-generic query
Retrieved(r, sr) ==
    IF sr.top_results # <<>> /\ sr.combined_meta # <<>>
    THEN LET mc == make_context(sr.top_results, sr.combined_meta)
         IN  [r EXCEPT !.searched = TRUE,
                       !.fused = sr.top_results,
                       !.combined_meta = sr.combined_meta,
                       !.max_score = sr.max_score,
                       !.context_block = mc.context_block,
                       !.pages = mc.pages,
                       !.source_meta = mc.source_meta,
                       !.use_general = UseGeneral(sr.max_score, mc.source_meta)]
    ELSE [r EXCEPT !.searched = TRUE,
                   !.fused = sr.top_results,
                   !.combined_meta = sr.combined_meta,
                   !.max_score = sr.max_score,
                   !.use_general = TRUE]

\* Skipped with use_general left False
Skipped_grounded(r) == [r EXCEPT !.generic = TRUE, !.use_general = FALSE]

\* the locals of a generic query: no search
Skipped(r) == [r EXCEPT !.generic = TRUE, !.use_general = TRUE]

(***************************************************************************)
(* The query handler: generation, error handling, retry, citations         *)
(***************************************************************************)
IsError(text) == StartsWith(text, LLM_ERROR)

\* the answer substituted when the first generation returns the sentinel
ErrorAnswer(r) ==
    IF (~r.use_general) /\ r.source_meta # <<>>
    THEN minimal_extractive_fallback(<<[id |-> r.combined_meta[1], score |-> 0]>>,
                                      r.combined_meta)
    ELSE APOLOGY

\* NeedsRetry without the length test
NeedsRetry_markerOnly(use_general, final_answer) ==
    (~use_general) /\ Contains(final_answer, NOT_FOUND_MARKER)

\* NeedsRetry without the test of use_general
NeedsRetry_anyMode(use_general, final_answer) ==
    Contains(final_answer, NOT_FOUND_MARKER) \/ Len(final_answer) < MinAnswerLen

\* line 316: the retry condition on the stripped first answer
NeedsRetry(use_general, final_answer) ==
    (~use_general) /\ (Contains(final_answer, NOT_FOUND_MARKER)
                        \/ Len(final_answer) < MinAnswerLen)

\* lines 322-324
Cite(r) ==
    IF (~r.use_general) /\ r.pages # <<>>
    THEN [r EXCEPT !.final_answer = add_inline_citations(@, r.pages), !.cited = TRUE]
    ELSE r

FirstPrompt(r) ==
    build_prompt(r.user_query, r.conv_summary, r.context_block, r.use_general)

RetryPrompt(r) ==
    build_prompt(r.user_query, r.conv_summary, r.context_block, TRUE)

\* first generation returned the sentinel
AfterError(r, raw) ==
    Cite([r EXCEPT !.prompts = <<FirstPrompt(r)>>,
                   !.raw_answer = raw,
                   !.fallback = (~r.use_general) /\ r.source_meta # <<>>,
                   !.final_answer = ErrorAnswer(r)])

\* first generation returned a usable text
AfterAnswer(r, raw) ==
    Cite([r EXCEPT !.prompts = <<FirstPrompt(r)>>,
                   !.raw_answer = raw,
                   !.final_answer = Strip(raw)])

\* AfterRetry with the tracked pages kept in every case
AfterRetry_keepsPages(r, raw, alt) ==
    Cite([r EXCEPT !.prompts = <<FirstPrompt(r), RetryPrompt(r)>>,
                   !.raw_answer = raw,
                   !.alt = alt,
                   !.retried = TRUE,
                   !.final_answer = IF IsError(alt) THEN Strip(raw) ELSE Strip(alt)])

\* first generation returned an unusable text: one retry, which returned alt
AfterRetry(r, raw, alt) ==
    Cite([r EXCEPT !.prompts = <<FirstPrompt(r), RetryPrompt(r)>>,
                   !.raw_answer = raw,
                   !.alt = alt,
                   !.retried = TRUE,
                   !.final_answer = IF IsError(alt) THEN Strip(raw) ELSE Strip(alt),
                   !.pages = IF IsError(alt) THEN @ ELSE <<>>])

(***************************************************************************)
(* Inputs                                                                  *)
(***************************************************************************)
\* the session ids a client may send
ClientIds == DOMAIN sessions \cup {NoId, StaleId}

Worlds(states) ==
    UNION { { [listing |-> l, store |-> st] : l \in Listings(cs), st \in [cs -> states] } :
            cs \in SUBSET CollIds }

\* the collections a query may find
QueryWorlds ==
    Worlds(CollStates({"load"}, {"1"}, {1, 2}, 1, {{"1"}, {}}, {0, 1}))

\* the collections search_all_collections is explored on
SearchStores ==
    UNION { [cs -> CollStates({"load", "search", "top"}, ChunkIds, {1, 2}, TOPK_FINAL,
                              {ChunkIds, {"1"}}, {-1, 1, 2})] :
            cs \in SUBSET CollIds }

(***************************************************************************)
(* Actions of the server                                                   *)
(***************************************************************************)
Init ==
    /\ sessions = <<>>
    /\ now = 0
    /\ accepted = 0
    /\ req = [r \in Reqs |-> IdleReq]
    /\ store = <<>>
    /\ listing = <<>>
    /\ final_k = 0
    /\ found = NotSearched

\* POST /api/session/create, with at most max sessions explored
CreateSessionUpTo(max) ==
    /\ Cardinality(DOMAIN sessions) < max
    /\ sessions' = SessionsWith(NoId)
    /\ now' = now + 1
    /\ UNCHANGED <<accepted, req, searchVars>>

CreateSession == CreateSessionUpTo(MaxSessions)

\* ClearOn emptying the log of every session
ClearOn_everySession(session_id) ==
    /\ sessions' = IF session_id = NoId \/ session_id \notin DOMAIN sessions
                   THEN sessions
                   ELSE [s \in DOMAIN sessions |-> [sessions[s] EXCEPT !.messages = <<>>]]
    /\ UNCHANGED <<now, accepted, req, searchVars>>

\* POST /api/session/clear for the id session_id
ClearOn(session_id) ==
    /\ sessions' = IF session_id = NoId \/ session_id \notin DOMAIN sessions
                   THEN sessions
                   ELSE [sessions EXCEPT ![session_id].messages = <<>>]
    /\ UNCHANGED <<now, accepted, req, searchVars>>

ClearSession == \E session_id \in ClientIds : ClearOn(session_id)

\* RejectedWith running get_or_create_session before the test of the query text
RejectedWith_createsFirst(r, session_id, raw) ==
    /\ session_id = NoId \/ Strip(raw) = <<>>
    /\ req' = [req EXCEPT ![r] = [IdleReq EXCEPT !.pc = "done",
                                                !.session_id = session_id,
                                                !.user_query = Strip(raw),
                                                !.resp = [NoResp EXCEPT !.status = 400]]]
    /\ sessions' = IF session_id = NoId THEN sessions ELSE SessionsWith(session_id)
    /\ UNCHANGED <<now, accepted, searchVars>>

\* POST /api/query, lines 232-240, on the request body (session_id, raw)
RejectedWith(r, session_id, raw) ==
    /\ session_id = NoId \/ Strip(raw) = <<>>
    /\ req' = [req EXCEPT ![r] = [IdleReq EXCEPT !.pc = "done",
                                                !.session_id = session_id,
                                                !.user_query = Strip(raw),
                                                !.resp = [NoResp EXCEPT !.status = 400]]]
    /\ UNCHANGED <<sessions, now, accepted, searchVars>>

\* POST /api/query, lines 232-240: the request is rejected
QueryRejected(r) ==
    /\ req[r].pc = "idle"
    /\ \E session_id \in ClientIds, raw \in RawQueries : RejectedWith(r, session_id, raw)

\* POST /api/query, lines 232-249, on the request body (session_id, raw)
BeginWith(r, session_id, raw) ==
    /\ session_id # NoId
    /\ Strip(raw) # <<>>
    /\ LET sid == SessionIdFor(session_id)
           t   == now + CreateTicks(session_id)
       IN  /\ sessions' = [SessionsWith(session_id) EXCEPT
                             ![sid].messages = Append(@, Message("user", Strip(raw), t))]
           /\ now' = t + 1
           /\ req' = [req EXCEPT ![r] = [IdleReq EXCEPT !.pc = "started",
                                                       !.session_id = session_id,
                                                       !.sid = sid,
                                                       !.user_ts = t,
                                                       !.user_query = Strip(raw),
                                                       !.appended = <<"user">>]]
    /\ accepted' = accepted + 1
    /\ UNCHANGED searchVars

\* POST /api/query, lines 232-249, with a query text of queries and at most max
\* sessions explored
BeginIn(r, queries, max) ==
    /\ req[r].pc = "idle"
    /\ accepted < MaxQueries
    /\ \E session_id \in ClientIds, raw \in queries :
        /\ session_id \in DOMAIN sessions \/ Cardinality(DOMAIN sessions) < max
        /\ BeginWith(r, session_id, raw)

\* POST /api/query, lines 232-249: the session is found or created and the user
\* message appended
QueryBegin(r) == BeginIn(r, RawQueries, MaxSessions)

\* lines 298-324 on the locals r0 that retrieval left, the generator answering
\* from outs
GeneratedFrom(r, r0, outs) ==
    \E raw \in outs :
        IF IsError(raw)
        THEN req' = [req EXCEPT ![r] = [AfterError(r0, raw) EXCEPT !.pc = "answered"]]
        ELSE IF NeedsRetry(r0.use_general, Strip(raw))
             THEN \E alt \in outs :
                    req' = [req EXCEPT ![r] = [AfterRetry(r0, raw, alt) EXCEPT !.pc = "answered"]]
             ELSE req' = [req EXCEPT ![r] = [AfterAnswer(r0, raw) EXCEPT !.pc = "answered"]]

Generated(r, r0) == GeneratedFrom(r, r0, LLMOutputs)

\* lines 251-324 on the locals r0 after the summary: classification,
\* search over one of worlds, gate, generation; with keep, the request
\* remembers the collections it searched
OrchestrateIn(r, r0, worlds, outs, keep) ==
    IF is_generic_query(r0.user_query)
    THEN GeneratedFrom(r, Skipped(r0), outs)
    ELSE \E w \in worlds :
           GeneratedFrom(r, Retrieved([r0 EXCEPT !.world = IF keep THEN w ELSE NoWorld],
                                      search_all_collections(w.listing, w.store, TOPK_FINAL)),
                         outs)

\* POST /api/query, lines 251-324, over one of worlds and the generator
\* answering from outs
OrchestrateFor(r, worlds, outs, keep) ==
    /\ req[r].pc = "started"
    /\ OrchestrateIn(r, [req[r] EXCEPT !.conv_summary =
                                          conversation_summary(sessions[req[r].sid])],
                     worlds, outs, keep)
    /\ UNCHANGED <<sessions, now, accepted, searchVars>>

\* POST /api/query, lines 251-324: summary, classification, search, gate, generation
QueryOrchestrate(r) == OrchestrateFor(r, QueryWorlds, LLMOutputs, FALSE)

\* POST /api/query, lines 340-344: a call inside the try block raised
QueryRaise(r) ==
    /\ req[r].pc = "started"
    /\ req' = [req EXCEPT ![r].pc = "done", ![r].resp = [NoResp EXCEPT !.status = 500]]
    /\ UNCHANGED <<sessions, now, accepted, searchVars>>

\* QueryRespond with the sources returned in every mode
QueryRespond_sourcesAlways(r) ==
    /\ req[r].pc = "answered"
    /\ sessions' = [sessions EXCEPT ![req[r].sid].messages =
                      Append(@, Message("assistant", req[r].final_answer, now))]
    /\ now' = now + 2
    /\ req' = [req EXCEPT ![r].pc = "done",
                          ![r].appended = Append(@, "assistant"),
                          ![r].resp = [status         |-> 200,
                                       answer         |-> req[r].final_answer,
                                       sources        |-> req[r].source_meta,
                                       used_documents |-> ~req[r].use_general,
                                       timestamp      |-> now + 1]]
    /\ UNCHANGED <<accepted, searchVars>>

\* POST /api/query, lines 326-338: the assistant message is appended and the
\* response built
QueryRespond(r) ==
    /\ req[r].pc = "answered"
    /\ sessions' = [sessions EXCEPT ![req[r].sid].messages =
                      Append(@, Message("assistant", req[r].final_answer, now))]
    /\ now' = now + 2
    /\ req' = [req EXCEPT ![r].pc = "done",
                          ![r].appended = Append(@, "assistant"),
                          ![r].resp = [status         |-> 200,
                                       answer         |-> req[r].final_answer,
                                       sources        |-> IF ~req[r].use_general
                                                          THEN req[r].source_meta ELSE <<>>,
                                       used_documents |-> ~req[r].use_general,
                                       timestamp      |-> now + 1]]
    /\ UNCHANGED <<accepted, searchVars>>

\* the response has been sent
QueryReturn(r) ==
    /\ req[r].pc = "done"
    /\ req' = [req EXCEPT ![r] = IdleReq]
    /\ UNCHANGED <<sessions, now, accepted, searchVars>>

Next ==
    \/ CreateSession
    \/ ClearSession
    \/ \E r \in Reqs : QueryRejected(r)
    \/ \E r \in Reqs : QueryBegin(r)
    \/ \E r \in Reqs : QueryOrchestrate(r)
    \/ \E r \in Reqs : QueryRaise(r)
    \/ \E r \in Reqs : QueryRespond(r)
    \/ \E r \in Reqs : QueryReturn(r)

Spec == Init /\ [][Next]_vars

(***************************************************************************)
(* The whole server: every handler, two sessions                           *)
(***************************************************************************)
\* sessions explored by SpecServer and SpecPair
ServerSessions == 2

\* the collections uploaded
ServerUploads == {"a"}

\* the collections a query of SpecServer may find: none, one that fails to
\* load, one that answers with a top score below or at the threshold
ServerWorlds ==
    { w \in QueryWorlds :
        /\ DOMAIN w.store \subseteq {"a"}
        /\ \A c \in DOMAIN w.store :
              w.store[c].fail = "none" =>
                  /\ w.store[c].results # <<>>
                  /\ \A i \in DOMAIN w.store[c].results : w.store[c].results[i].score = 1 }

\* what the generator returns in SpecServer
ServerOutputs == {A_days, A_not_found, A_error}

\* the query texts sent in SpecServer
ServerQueries == {<<" ">>, Q_hi, Q_refund}

\* GET /api/history for the id session_id: the response
get_history(session_id) ==
    IF session_id = NoId \/ session_id \notin DOMAIN sessions
    THEN NoHistory
    ELSE [status        |-> 200,
          messages      |-> sessions[session_id].messages,
          collection_id |-> sessions[session_id].collection_id]

\* POST /api/upload for the id session_id with the PDFs of collection c; bound
\* tells whether the handler got as far as line 187
UploadOn(session_id, c, bound) ==
    /\ sessions' = IF session_id = NoId THEN sessions
                   ELSE IF bound
                        THEN [SessionsWith(session_id) EXCEPT
                                ![SessionIdFor(session_id)].collection_id = c]
                        ELSE SessionsWith(session_id)
    /\ now' = IF session_id = NoId THEN now ELSE now + CreateTicks(session_id)
    /\ UNCHANGED <<accepted, req, searchVars>>

UploadDocuments ==
    \E session_id \in ClientIds, c \in ServerUploads, bound \in BOOLEAN :
        /\ session_id \in DOMAIN sessions \cup {NoId}
              \/ Cardinality(DOMAIN sessions) < ServerSessions
        /\ UploadOn(session_id, c, bound)

ServerCreate == CreateSessionUpTo(ServerSessions)

ServerRejected(r) ==
    /\ req[r].pc = "idle"
    /\ \E session_id \in ClientIds, raw \in ServerQueries : RejectedWith(r, session_id, raw)

ServerBegin(r) == BeginIn(r, ServerQueries, ServerSessions)

ServerOrchestrate(r) == OrchestrateFor(r, ServerWorlds, ServerOutputs, TRUE)

ServerNext ==
    \/ ServerCreate
    \/ ClearSession
    \/ UploadDocuments
    \/ \E r \in Reqs : ServerRejected(r)
    \/ \E r \in Reqs : ServerBegin(r)
    \/ \E r \in Reqs : ServerOrchestrate(r)
    \/ \E r \in Reqs : QueryRaise(r)
    \/ \E r \in Reqs : QueryRespond(r)
    \/ \E r \in Reqs : QueryReturn(r)

SpecServer == Init /\ [][ServerNext]_vars

(***************************************************************************)
(* Two queries in flight at once                                           *)
(***************************************************************************)
PairReqs == {"r1", "r2"}

\* the query text sent in SpecPair
PairQueries == {Q_refund}

\* the collections a query of SpecPair finds: none
PairWorlds == {NoWorld}

\* what the generator returns in SpecPair
PairOutputs == {A_days}

PairInit ==
    /\ sessions = <<>>
    /\ now = 0
    /\ accepted = 0
    /\ req = [r \in PairReqs |-> IdleReq]
    /\ store = <<>>
    /\ listing = <<>>
    /\ final_k = 0
    /\ found = NotSearched

PairBegin(r) == BeginIn(r, PairQueries, ServerSessions)

PairOrchestrate(r) == OrchestrateFor(r, PairWorlds, PairOutputs, FALSE)

PairNext ==
    \/ ServerCreate
    \/ ClearSession
    \/ UploadDocuments
    \/ \E r \in PairReqs : PairBegin(r)
    \/ \E r \in PairReqs : PairOrchestrate(r)
    \/ \E r \in PairReqs : QueryRespond(r)
    \/ \E r \in PairReqs : QueryReturn(r)

SpecPair == PairInit /\ [][PairNext]_vars

(***************************************************************************)
(* search_all_collections on its own, over every store                     *)
(***************************************************************************)
SearchInit ==
    /\ sessions = <<>>
    /\ now = 0
    /\ accepted = 0
    /\ req = [r \in Reqs |-> IdleReq]
    /\ store \in SearchStores
    /\ listing = <<>>
    /\ final_k = 0
    /\ found = NotSearched

\* one call search_all_collections(query, embedder, final_k=k)
SearchAll ==
    /\ final_k = 0
    /\ \E k \in 1..TOPK_FINAL, l \in Listings(DOMAIN store) :
        /\ \A c \in DOMAIN store : Len(store[c].results) <= k
        /\ final_k' = k
        /\ listing' = l
        /\ found' = search_all_collections(l, store, k)
    /\ UNCHANGED <<store, serverVars>>

SearchNext == SearchAll

SpecSearch == SearchInit /\ [][SearchNext]_vars

(***************************************************************************)
(* conversation_summary on its own, over logs longer than its window       *)
(***************************************************************************)
\* longest log explored by SpecSummary
MaxLogLen == 11

\* a content one character longer than the summary keeps
LongText == [i \in 1..(SummaryChars + 1) |-> IF i <= SummaryChars THEN "x" ELSE "y"]

\* the messages the logs are made of: role and content
LogEntries == { [role |-> "user", content |-> Q_hi],
                [role |-> "assistant", content |-> LongText] }

\* the logs of at most MaxLogLen messages, stamped in order
SummaryLogs ==
    UNION { { [i \in 1..n |-> Message(e[i].role, e[i].content, i)] :
                e \in [1..n -> LogEntries] } : n \in 0..MaxLogLen }

SummaryInit ==
    /\ \E log \in SummaryLogs :
          sessions = <<[NewSession(1, 0) EXCEPT !.messages = log]>>
    /\ now = MaxLogLen + 1
    /\ accepted = 0
    /\ req = [r \in Reqs |-> [IdleReq EXCEPT !.pc = "started", !.sid = 1]]
    /\ store = <<>>
    /\ listing = <<>>
    /\ final_k = 0
    /\ found = NotSearched

\* line 253: conv_summary = conversation_summary(session)
Summarise(r) ==
    /\ req[r].pc = "started"
    /\ req' = [req EXCEPT ![r].pc = "summarised",
                          ![r].conv_summary = conversation_summary(sessions[req[r].sid])]
    /\ UNCHANGED <<sessions, now, accepted, searchVars>>

SummaryNext == \E r \in Reqs : Summarise(r)

SpecSummary == SummaryInit /\ [][SummaryNext]_vars

(***************************************************************************)
(* Properties of the query handler (checked under Spec)                    *)
(***************************************************************************)
\* the request has run its orchestration and was not aborted
Orchestrated(r) ==
    \/ req[r].pc = "answered"
    \/ req[r].pc = "done" /\ req[r].resp.status = 200

\* the request got a normal response
Replied(r) == req[r].pc = "done" /\ req[r].resp.status = 200

\* a returned candidate has chunk metadata
HasSource(r) ==
    \E i \in DOMAIN req[r].fused : InKeys(req[r].fused[i].id, req[r].combined_meta)

\* text of the highest-ranked returned candidate that has metadata
RECURSIVE FirstSourceText(_, _)
FirstSourceText(fused, keys) ==
    IF fused = <<>> THEN <<>>
    ELSE IF InKeys(Head(fused).id, keys) THEN MetaOf(Head(fused).id).text
    ELSE FirstSourceText(Tail(fused), keys)

\* C1, as claimed: a non-generic query is answered from evidence exactly when the
\* confidence signal is at least LOW_CONFIDENCE_THRESH and the candidate count
\* is not zero, and generically otherwise
C1_GateByCandidateCount ==
    \A r \in Reqs :
        (Replied(r) /\ ~is_generic_query(req[r].user_query))
            => (req[r].resp.used_documents
                  <=> (req[r].max_score >= LOW_CONFIDENCE_THRESH
                         /\ Len(req[r].fused) > 0))

\* C1, amended: a non-generic query is answered from evidence exactly when the
\* confidence signal is at least LOW_CONFIDENCE_THRESH and at least one returned
\* candidate has chunk metadata, and generically otherwise; returned candidates
\* without metadata do not count
C1_GateBySources ==
    \A r \in Reqs :
        (Replied(r) /\ ~is_generic_query(req[r].user_query))
            => /\ req[r].resp.used_documents
                    <=> (req[r].max_score >= LOW_CONFIDENCE_THRESH /\ HasSource(r))
               /\ (req[r].max_score < LOW_CONFIDENCE_THRESH \/ Len(req[r].fused) = 0)
                    => ~req[r].resp.used_documents

\* C1 witness: a non-generic query at exactly the threshold answered from evidence
C1_Witness ==
    \E r \in Reqs :
        /\ Replied(r)
        /\ ~is_generic_query(req[r].user_query)
        /\ req[r].max_score = LOW_CONFIDENCE_THRESH
        /\ Len(req[r].fused) > 0
        /\ req[r].resp.used_documents

\* C2: a generic query is answered generically: no search is made, no evidence
\* reaches a prompt, used_documents is false and sources is empty
C2_GenericSkipsRetrieval ==
    \A r \in Reqs :
        (Orchestrated(r) /\ is_generic_query(req[r].user_query))
            => /\ ~req[r].searched
               /\ req[r].context_block = <<>>
               /\ \A i \in DOMAIN req[r].prompts :
                    req[r].prompts[i].general /\ req[r].prompts[i].context = <<>>
               /\ req[r].use_general
               /\ ~req[r].cited
               /\ Replied(r) => (~req[r].resp.used_documents /\ req[r].resp.sources = <<>>)

\* C2 witness: a generic query got its response
C2_Witness ==
    \E r \in Reqs :
        /\ Replied(r)
        /\ is_generic_query(req[r].user_query)
        /\ Len(req[r].prompts) = 1

\* C6, as claimed: when the first generation returns the error sentinel, a
\* grounded attempt is answered with the text of the highest-ranked candidate
\* (with or without citation markers) and any other attempt with the apology
C6_FallbackFromTopCandidate ==
    \A r \in Reqs :
        (Replied(r) /\ IsError(req[r].raw_answer))
            => IF (~req[r].use_general) /\ Len(req[r].fused) > 0
               THEN LET text == FirstSourceText(req[r].fused, req[r].combined_meta)
                    IN  req[r].resp.answer \in
                          { text, add_inline_citations(text, req[r].pages) }
               ELSE req[r].resp.answer = APOLOGY

\* C7, as claimed: citations are added only to a grounded generated answer with
\* at least one tracked page, never to a generic or extractive-fallback answer
C7_CitationsOnlyOnGenerated ==
    \A r \in Reqs :
        (Orchestrated(r) /\ req[r].cited)
            => /\ ~req[r].use_general
               /\ req[r].pages # <<>>
               /\ ~req[r].fallback
               /\ ~IsError(req[r].raw_answer)

\* C8, as claimed: a grounded answer that is "Not found in document.", contains
\* the marker or is shorter than 4 characters is retried once with the generic
\* prompt, and citations are dropped (when the retry gives a text)
C8_UnusableRetriesAndDropsCitations ==
    \A r \in Reqs :
        (Orchestrated(r) /\ ~req[r].use_general
           /\ req[r].raw_answer \in {A_not_found_short, A_not_found, A_ok})
            => /\ req[r].retried
               /\ Len(req[r].prompts) = 2
               /\ req[r].prompts[2].general
               /\ ~IsError(req[r].alt) => (~req[r].cited /\ req[r].pages = <<>>)

\* C8, amended: a grounded answer that contains "Not found in the document" or
\* is shorter than 4 characters once stripped is retried once with the generic
\* prompt; citations are dropped when the retry does not return the sentinel;
\* "Not found in document." does not contain the marker and is not retried
C8_MarkerRetries ==
    \A r \in Reqs :
        (Orchestrated(r) /\ ~req[r].use_general)
            => /\ req[r].raw_answer \in {A_not_found, A_ok}
                    => /\ req[r].retried
                       /\ Len(req[r].prompts) = 2
                       /\ req[r].prompts[2].general
                       /\ req[r].prompts[2].context = <<>>
                       /\ ~IsError(req[r].alt)
                            => /\ ~req[r].cited
                               /\ req[r].pages = <<>>
                               /\ req[r].final_answer = Strip(req[r].alt)
               /\ req[r].raw_answer \in {A_not_found_short, A_days}
                    => /\ ~req[r].retried
                       /\ Len(req[r].prompts) = 1
                       /\ req[r].final_answer
                            = add_inline_citations(Strip(req[r].raw_answer), req[r].pages)

\* C8 witness: a grounded "Not found in the document." was retried and the
\* retry's text returned without citations
C8_Witness ==
    \E r \in Reqs :
        /\ Replied(r)
        /\ ~req[r].use_general
        /\ req[r].raw_answer = A_not_found
        /\ req[r].retried
        /\ req[r].alt = A_days
        /\ req[r].resp.answer = A_days
        /\ req[r].resp.used_documents

\* C9: a query makes one or two generation calls; the second is made only after
\* a grounded first attempt that returned an unusable text other than the
\* sentinel, and never a third, whatever the retry returned
C9_AtMostOneRetry ==
    \A r \in Reqs :
        Orchestrated(r)
            => /\ Len(req[r].prompts) \in {1, 2}
               /\ req[r].prompts[1].general = req[r].use_general
               /\ (Len(req[r].prompts) = 2) <=> req[r].retried
               /\ req[r].retried
                    => /\ ~req[r].use_general
                       /\ req[r].raw_answer \in {A_not_found, A_ok}
                       /\ req[r].prompts[2].general
               /\ (req[r].use_general \/ IsError(req[r].raw_answer))
                    => Len(req[r].prompts) = 1

\* C9 witness: the retry itself came back unusable and no third call was made
C9_Witness ==
    \E r \in Reqs :
        /\ Replied(r)
        /\ req[r].retried
        /\ req[r].alt \in {A_ok, A_not_found, A_error}
        /\ Len(req[r].prompts) = 2

\* C10, as claimed: every accepted query appends exactly two messages, the user
\* message and then the assistant's final message, whichever way it ends
C10_TwoMessagesPerAcceptedQuery ==
    \A r \in Reqs :
        (req[r].pc = "done" /\ req[r].resp.status # 400)
            => req[r].appended = <<"user", "assistant">>

\* C18: after a retry that did not return the error sentinel the final answer
\* is the retry's stripped text, the tracked pages are empty and no citation
\* is added; after a retry that returned the sentinel the final answer is the
\* stripped first answer, annotated with the pages of the retrieved context,
\* which stay tracked.
C18_RetryOutcome ==
    \A r \in DOMAIN req :
        (Orchestrated(r) /\ req[r].retried) =>
            LET tracked == make_context(req[r].fused, req[r].combined_meta).pages
            IN  IF ~IsError(req[r].alt)
                THEN /\ req[r].final_answer = Strip(req[r].alt)
                     /\ req[r].pages = <<>>
                     /\ ~req[r].cited
                ELSE /\ req[r].pages = tracked
                     /\ tracked # <<>>
                     /\ req[r].cited
                     /\ req[r].final_answer =
                           add_inline_citations(Strip(req[r].raw_answer), tracked)

\* a retry returned the error sentinel and the first answer, the not-found
\* marker, was kept and cited
C18_Witness ==
    \E r \in DOMAIN req :
        /\ Replied(r)
        /\ req[r].retried
        /\ IsError(req[r].alt)
        /\ req[r].raw_answer = A_not_found
        /\ req[r].cited
        /\ Len(req[r].resp.answer) > Len(Strip(req[r].raw_answer))

\* the summary entry of the query request r carries
OwnEntry(r) == UserLabel \o Prefix(req[r].user_query, SummaryChars)

\* C20: the summary a query passes to the generator was computed after its
\* user message was appended: it is never the no-prior-conversation marker,
\* its last entry is the current query, and the first attempt and the retry
\* are given the same summary.
C20_SummaryEndsWithCurrentQuery ==
    \A r \in DOMAIN req :
        Orchestrated(r) =>
            /\ req[r].conv_summary # NO_PRIOR
            /\ Len(req[r].conv_summary) >= Len(OwnEntry(r))
            /\ LastN(req[r].conv_summary, Len(OwnEntry(r))) = OwnEntry(r)
            /\ \A i \in DOMAIN req[r].prompts :
                  req[r].prompts[i].summary = req[r].conv_summary

(***************************************************************************)
(* Properties of search_all_collections (checked under SpecSearch)         *)
(***************************************************************************)
Searched == final_k > 0

\* everything the loop collected, before the sort and the slice
AllResults ==
    SearchLoop([all_results |-> <<>>, combined_meta |-> <<>>, max_score |-> 0],
               listing, store, 1).all_results

SetMax(S) == CHOOSE x \in S : \A y \in S : y <= x

\* the collections whose top score the loop reads
Answering == { c \in DOMAIN store : store[c].fail = "none" /\ store[c].results # <<>> }

SeqIds(s) == { s[i].id : i \in DOMAIN s }

\* C3, as claimed: over a non-empty set of collections that all load, return
\* results and give a top score, the confidence signal is the maximum of their
\* top scores
C3_SignalIsMaxTopScore ==
    (Searched /\ DOMAIN store # {} /\ Answering = DOMAIN store)
        => found.max_score = SetMax({ store[c].top : c \in DOMAIN store })

\* C3, amended: the confidence signal is the maximum of 0 and the top scores of
\* the collections that loaded and returned at least one result, whatever
\* final_k cuts from the merged list
C3_SignalIsFlooredMax ==
    Searched => found.max_score = SetMax({0} \cup { store[c].top : c \in Answering })

\* C3 witness: two collections, more candidates than final_k, and a signal above
\* the score of every returned candidate
C3_Witness ==
    /\ Searched
    /\ Cardinality(Answering) = 2
    /\ Len(AllResults) > final_k
    /\ found.max_score = 2
    /\ \A i \in DOMAIN found.top_results : found.top_results[i].score < 2

\* C4, as claimed: the merged list is the same for every order in which the
\* collections are enumerated, candidates of equal score from different
\* collections by ascending global id
C4_MergeIndependentOfListing ==
    Searched
        => /\ \A l \in Listings(DOMAIN store) :
                search_all_collections(l, store, final_k).top_results = found.top_results
           /\ \A i, j \in DOMAIN found.top_results :
                (/\ i < j
                 /\ found.top_results[i].score = found.top_results[j].score
                 /\ found.top_results[i].id[1] # found.top_results[j].id[1])
                    => StrLess(found.top_results[i].id, found.top_results[j].id)

\* C5: the returned list has at most final_k entries, all of them collected
\* candidates, in descending score order, and no candidate left out scores
\* higher than a returned one; the best candidate overall is first
C5_TopKByScore ==
    Searched
        => /\ Len(found.top_results) = Min2(final_k, Len(AllResults))
           /\ \A i \in DOMAIN found.top_results :
                \E j \in DOMAIN AllResults : AllResults[j] = found.top_results[i]
           /\ \A i, j \in DOMAIN found.top_results :
                i < j => found.top_results[i].score >= found.top_results[j].score
           /\ \A j \in DOMAIN AllResults :
                AllResults[j].id \notin SeqIds(found.top_results)
                    => \A i \in DOMAIN found.top_results :
                         found.top_results[i].score >= AllResults[j].score
           /\ AllResults # <<>>
                => \A j \in DOMAIN AllResults :
                     found.top_results[1].score >= AllResults[j].score

\* C5 witness: the best candidate comes from the collection searched last and
\* the merged list was cut
C5_Witness ==
    /\ Searched
    /\ Len(listing) = 2
    /\ Len(AllResults) > final_k
    /\ found.top_results[1].id[1] = listing[2]
    /\ \A j \in DOMAIN AllResults :
         AllResults[j].id[1] = listing[1]
            => AllResults[j].score < found.top_results[1].score

\* the collections on which a step of the loop body raised
Failing ==
    { c \in DOMAIN store :
        \/ store[c].fail \in {"load", "search"}
        \/ store[c].fail = "top" /\ store[c].results # <<>> }

\* the candidates the collections in cs returned
CandidatesOf(cs) ==
    UNION { { Candidates(c, store[c])[i] : i \in 1..Len(store[c].results) } : c \in cs }

\* C16: a collection on which load, hybrid search or the top-score computation
\* fails adds no candidate, no metadata and no confidence to what
\* search_all_collections returns, and the other collections are merged as if
\* it were not there.
C16_FailedCollectionAddsNothing ==
    Searched
        => /\ \A i \in DOMAIN found.top_results :
                 found.top_results[i].id[1] \notin Failing
           /\ \A i \in DOMAIN found.combined_meta :
                 found.combined_meta[i][1] \notin Failing
           /\ found.max_score =
                 SetMax({0} \cup { store[c].top : c \in Answering \ Failing })
           /\ Len(found.top_results) =
                 Min2(final_k, Cardinality(CandidatesOf(DOMAIN store \ Failing)))

\* the keys of the returned metadata mapping
FoundKeys == { found.combined_meta[i] : i \in DOMAIN found.combined_meta }

\* C17: when no collection fails, the returned metadata mapping is keyed by
\* the returned candidates: no key for a candidate that the cut to final_k
\* dropped, and a key for every returned candidate whose chunk has metadata
\* in its collection.
C17_MetadataOfReturnedOnly ==
    (Searched /\ Failing = {})
        => /\ FoundKeys \subseteq SeqIds(found.top_results)
           /\ \A i \in DOMAIN found.top_results :
                 LET id == found.top_results[i].id
                 IN  id[4] \in store[id[1]].meta => id \in FoundKeys

(***************************************************************************)
(* Properties of sessions (checked under SpecServer)                       *)
(***************************************************************************)
\* the query of request r was accepted: its user message has been appended
Accepted(r) == req[r].appended # <<>>

\* the user message request r appended
UserMessage(r) == Message("user", req[r].user_query, req[r].user_ts)

InSeq(x, seq) == \E i \in DOMAIN seq : seq[i] = x

\* C11: once a query referencing the id s has been accepted, a request
\* referencing s finds a session, and it is the session the query wrote to.
C11_SessionLivesUnderReferencedId ==
    \A r \in DOMAIN req :
        Accepted(r) =>
            /\ get_history(req[r].session_id).status = 200
            /\ req[r].sid = req[r].session_id

\* request r has just been answered 400
Rejected(r) == req[r].pc = "done" /\ req[r].resp.status = 400

\* C12: a query with a missing session id or an empty (or whitespace-only)
\* text is rejected at once: the step that takes it answers 400, has called
\* neither retrieval nor generation, and leaves the session map, and with it
\* every message log, as it was.
C12_InvalidQueryRejectedUntouched ==
    [][\A r \in DOMAIN req :
          (req[r].pc = "idle" /\ req'[r].pc # "idle"
              /\ (req'[r].session_id = NoId \/ req'[r].user_query = <<>>))
          => /\ req'[r].pc = "done"
             /\ req'[r].resp.status = 400
             /\ req'[r].prompts = <<>>
             /\ ~req'[r].searched
             /\ req'[r].appended = <<>>
             /\ sessions' = sessions]_vars

\* a whitespace-only query under an id the server never issued has been
\* rejected while a session holds messages
C12_Witness ==
    \E r \in DOMAIN req :
        /\ Rejected(r)
        /\ req[r].session_id = StaleId
        /\ req[r].user_query = <<>>
        /\ \E s \in DOMAIN sessions : sessions[s].messages # <<>>

\* every collection the request r found fails to load (or there is none)
NothingLoads(r) ==
    \A c \in DOMAIN req[r].world.store : req[r].world.store[c].fail = "load"

\* C13: a response has no sources when used_documents is false; and a
\* non-generic query that finds no collection, or only collections that fail
\* to load, gets an empty list, an empty mapping and zero confidence from
\* search_all_collections and is answered with used_documents false and no
\* sources.
C13_NoSourcesWithoutDocuments ==
    \A r \in DOMAIN req :
        /\ Replied(r) =>
              (~req[r].resp.used_documents => req[r].resp.sources = <<>>)
        /\ (Orchestrated(r) /\ req[r].searched /\ NothingLoads(r)) =>
              /\ req[r].fused = <<>>
              /\ req[r].combined_meta = <<>>
              /\ req[r].max_score = 0
              /\ req[r].use_general
        /\ (Replied(r) /\ req[r].searched /\ NothingLoads(r)) =>
              /\ ~req[r].resp.used_documents
              /\ req[r].resp.sources = <<>>

\* a non-generic query whose only collection failed to load has been answered
C13_Witness ==
    \E r \in DOMAIN req :
        /\ Replied(r)
        /\ req[r].searched
        /\ DOMAIN req[r].world.store # {}
        /\ NothingLoads(r)
        /\ ~req[r].resp.used_documents

(***************************************************************************)
(* Properties of conversation_summary (checked under SpecSummary)          *)
(***************************************************************************)
\* the entry the summary shows for one message: label, then at most the first
\* 100 characters
EntryOf(msg) ==
    (IF msg.role = "user" THEN UserLabel ELSE AsstLabel)
        \o [j \in 1..(IF Len(msg.content) < 100 THEN Len(msg.content) ELSE 100) |->
              msg.content[j]]

\* the entries of log[i..], oldest first, separated
RECURSIVE EntriesFrom(_, _)
EntriesFrom(log, i) ==
    IF i >= Len(log) THEN EntryOf(log[i])
    ELSE EntryOf(log[i]) \o SummarySep \o EntriesFrom(log, i + 1)

\* C14: the summary of an empty log is the no-prior-conversation marker;
\* otherwise it is the entries of the last min(10, n) messages, oldest first,
\* each a role label and the first 100 characters of the content, so that
\* messages before the last 10 do not show.
C14_SummaryOfLastTen ==
    \A r \in DOMAIN req :
        req[r].pc = "summarised" =>
            LET log == sessions[req[r].sid].messages
                n   == Len(log)
            IN  IF n = 0 THEN req[r].conv_summary = NO_PRIOR
                ELSE req[r].conv_summary =
                        EntriesFrom(log, IF n <= 10 THEN 1 ELSE n - 9)

\* a log of more than 10 messages, the oldest and the newest longer than 100
\* characters, has been summarised
C14_Witness ==
    \E r \in DOMAIN req :
        /\ req[r].pc = "summarised"
        /\ LET log == sessions[req[r].sid].messages
           IN  /\ Len(log) > 10
               /\ Len(log[1].content) > 100
               /\ Len(log[Len(log)].content) > 100
               /\ log[2].role = "user"

(***************************************************************************)
(* Properties of concurrent requests (checked under SpecPair)              *)
(***************************************************************************)
\* C15: a step of a request changes at most one session, the one the request
\* is on.  A step of a query changes only the session the query resolved, by
\* appending the query's own user or assistant message; any other step that
\* changes a session is a clear or an upload on that session alone.  No step
\* changes a creation timestamp, and no query or clear changes a binding.
C15_SessionsDoNotInterfere ==
    [][/\ \A a, b \in DOMAIN sessions :
             (sessions'[a] # sessions[a] /\ sessions'[b] # sessions[b]) => a = b
       /\ \A b \in DOMAIN sessions :
             sessions'[b] # sessions[b] =>
                /\ sessions'[b].created_at = sessions[b].created_at
                /\ sessions'[b].id = sessions[b].id
                /\ IF req' # req
                   THEN \E r \in DOMAIN req :
                          /\ req'[r] # req[r]
                          /\ req'[r].sid = b
                          /\ sessions'[b].collection_id = sessions[b].collection_id
                          /\ \/ sessions'[b].messages =
                                   Append(sessions[b].messages,
                                          Message("user", req'[r].user_query,
                                                  req'[r].user_ts))
                             \/ sessions'[b].messages =
                                   Append(sessions[b].messages,
                                          Message("assistant", req[r].final_answer, now))
                   ELSE \/ /\ sessions'[b].messages = <<>>
                           /\ sessions'[b].collection_id = sessions[b].collection_id
                        \/ sessions'[b].messages = sessions[b].messages]_vars

\* two queries are in flight on two sessions, one of them bound to a
\* collection, and the log of each holds that session's own query only
C15_Witness ==
    \E r1, r2 \in DOMAIN req :
        /\ r1 # r2
        /\ Accepted(r1) /\ Accepted(r2)
        /\ req[r1].sid # req[r2].sid
        /\ req[r1].pc = "done" /\ req[r2].pc = "answered"
        /\ sessions[req[r2].sid].collection_id = "a"
        /\ sessions[req[r1].sid].collection_id = "None"
        /\ Len(sessions[req[r1].sid].messages) = 2
        /\ sessions[req[r2].sid].messages = <<UserMessage(r2)>>

IsPrefixOf(s, t) == Len(s) <= Len(t) /\ SubSeq(t, 1, Len(s)) = s

\* C19: with queries and clears interleaved on a session, a message leaves a
\* log only when a clear empties it, and the step that appends an assistant
\* message appends it to a log that holds, before it, the user message of the
\* same query.
C19_LogWellFormed ==
    [][/\ \A b \in DOMAIN sessions :
             \/ IsPrefixOf(sessions[b].messages, sessions'[b].messages)
             \/ req' = req /\ sessions'[b].messages = <<>>
       /\ \A r \in DOMAIN req :
             (req[r].pc = "answered" /\ req'[r].pc = "done") =>
                LET log == sessions'[req[r].sid].messages
                IN  /\ log # <<>>
                    /\ log[Len(log)].role = "assistant"
                    /\ log[Len(log)].content = req[r].final_answer
                    /\ \E j \in 1..(Len(log) - 1) : log[j] = UserMessage(r)]_vars

====
